---- MODULE Spec2Model ----
(***************************************************************************)
(* Model of the SARIF triage tool: result_inspector.py (SourceArchive,     *)
(* extract_context_records, format_finding_as_prompt) and gemini.py (the   *)
(* interactive triage loop).                                               *)
(***************************************************************************)
EXTENDS Integers, Sequences, FiniteSets, TLC

VARIABLES
    \* SourceArchive
    namelist,   \* self._zip.namelist(): the archive listing, in order
    files,      \* entry name -> decoded lines of that entry
    cache,      \* self._cache: uri -> entry name or None
    calls,      \* _resolve calls made (by the last read_context, when it
                \* made them): uri, returned value, listing scanned?
    args,       \* arguments of the last read_context call
    ret,        \* value returned by the last read_context call
    reads,      \* indices used in lines[lineno] by the last read_context call
    \* extract_context_records and generate_prompts
    results,    \* runs[0]["results"] of the SARIF file
    limit,      \* the limit argument: None or an integer
    context,    \* the context argument
    idx,        \* position of the loop of extract_context_records
    records,    \* the records list built so far
    lookups,    \* log of read_context calls: result position, uri, line
    prompts,    \* the prompts generate_prompts has formatted so far
    pc,         \* where the command is: "loop", "returned", "written", "raised"
    \* gemini.py: main and start_chat_session
    triage_records,        \* the records main loops over
    finding,               \* idx of the loop of main
    session,               \* "main", "interactive", "finished", "exited", "crashed"
    conversation_history,  \* the history of the current session
    events                 \* log: sessions started, LLM calls made, inputs read

archiveVars == <<namelist, files, cache, calls, args, ret, reads>>
extractVars == <<results, limit, context, idx, records, lookups, prompts, pc>>
triageVars == <<triage_records, finding, session, conversation_history, events>>
vars == <<archiveVars, extractVars, triageVars>>

(***************************************************************************)
(* Python values.  Every value carries its type, so None, strings,         *)
(* integers, dictionaries and lists stay distinct.                         *)
(***************************************************************************)
PyNone == [t |-> "none"]
PyStr(s) == [t |-> "str", s |-> s]
PyInt(n) == [t |-> "int", n |-> n]
PyDict(d) == [t |-> "dict", d |-> d]
PyList(l) == [t |-> "list", l |-> l]
PyRaise(e) == [t |-> "raise", exc |-> e]

EmptyDict == PyDict([k \in {} |-> PyNone])

\* Python truthiness of a value (`not x` is ~Truthy(x)).
Truthy(v) ==
    CASE v.t = "none" -> FALSE
      [] v.t = "str" -> v.s # ""
      [] v.t = "int" -> v.n # 0
      [] v.t = "dict" -> DOMAIN v.d # {}
      [] v.t = "list" -> v.l # <<>>
      [] OTHER -> TRUE

\* All sequences over S of length at most n.
RECURSIVE SeqsUpTo(_, _)
SeqsUpTo(S, n) ==
    IF n = 0 THEN {<<>>}
    ELSE LET shorter == SeqsUpTo(S, n - 1)
         IN  shorter \cup {Append(s, x) : s \in {q \in shorter : Len(q) = n - 1}, x \in S}

Max(a, b) == IF a >= b THEN a ELSE b
Min(a, b) == IF a <= b THEN a ELSE b

(***************************************************************************)
(* SourceArchive                                                           *)
(***************************************************************************)
MaxEntries == 3
MaxLines == 3
MaxRadius == 2
MaxCalls == 3

\* Sample entry names and URIs: nested directories sharing a suffix, entries
\* of equal length, and URIs that match several, one or no entry.
ArchiveNames == {"a", "/a", "b/a", "c/a", "ab"}
Uris == {"", "a", "/a", "b"}

\* str.endswith
EndsWith(name, suffix) ==
    /\ Len(suffix) <= Len(name)
    /\ SubSeq(name, Len(name) - Len(suffix) + 1, Len(name)) = suffix

\* [name for name in self._zip.namelist() if name.endswith(uri)]
Matches(names, uri) == SelectSeq(names, LAMBDA name : EndsWith(name, uri))

\* min(matches, key=len) keeps the first of the smallest items.
MinByLenLast(matches) ==
    LET n == Len(matches)
        best[i \in 1..n] ==
            IF i = 1 THEN matches[1]
            ELSE IF Len(matches[i]) <= Len(best[i - 1]) THEN matches[i] ELSE best[i - 1]
    IN  best[n]

MinByLen(matches) ==
    LET n == Len(matches)
        best[i \in 1..n] ==
            IF i = 1 THEN matches[1]
            ELSE IF Len(matches[i]) < Len(best[i - 1]) THEN matches[i] ELSE best[i - 1]
    IN  best[n]

\* entry = min(matches, key=len) if matches else None
ScanEntry(names, uri) ==
    LET matches == Matches(names, uri)
    IN  IF matches # <<>> THEN PyStr(MinByLen(matches)) ELSE PyNone

\* `if uri in self._cache`
CacheHitTruthy(c, uri) == uri \in DOMAIN c /\ Truthy(c[uri])

CacheHit(c, uri) == uri \in DOMAIN c

\* _resolve as a function of the cache: the value returned, the cache after
\* the call, and whether the listing was scanned.
ResolveOutcome(names, c, uri) ==
    IF CacheHit(c, uri)
    THEN [entry |-> c[uri], cache |-> c, scanned |-> FALSE]
    ELSE LET entry == ScanEntry(names, uri)
         IN  [entry |-> entry,
              cache |-> [u \in DOMAIN c \cup {uri} |-> IF u = uri THEN entry ELSE c[u]],
              scanned |-> TRUE]

\* One call of SourceArchive._resolve(uri).
Resolve(uri) ==
    /\ Len(calls) < MaxCalls
    /\ LET out == ResolveOutcome(namelist, cache, uri)
       IN  /\ cache' = out.cache
           /\ calls' = Append(calls, [uri |-> uri, entry |-> out.entry, scanned |-> out.scanned])
    /\ UNCHANGED <<namelist, files, args, ret, reads>>
    /\ UNCHANGED extractVars
    /\ UNCHANGED triageVars

\* f"{lineno + 1:>5}: ": the number right-aligned in at least five columns.
Prefix(lineno) ==
    LET digits == ToString(lineno + 1)
        pad[k \in 0..5] == IF k = 0 THEN "" ELSE " " \o pad[k - 1]
    IN  pad[Max(5 - Len(digits), 0)] \o digits \o ": "

\* "\n".join(snippet_lines)
RECURSIVE JoinLines(_)
JoinLines(ls) ==
    IF ls = <<>> THEN ""
    ELSE IF Len(ls) = 1 THEN ls[1]
    ELSE ls[1] \o "\n" \o JoinLines(Tail(ls))

\* index = max(line - 1, 0); start = max(index - context, 0)
WindowStart(line, ctx) == Max(Max(line - 1, 0) - ctx, 0)

\* end = min(index + context, len(lines) - 1)
WindowEndUnclamped(line, ctx, n) == Max(line - 1, 0) + ctx

WindowEnd(line, ctx, n) == Min(Max(line - 1, 0) + ctx, n - 1)

\* range(start, end + 1)
Window(line, ctx, n) ==
    LET start == WindowStart(line, ctx)
        end == WindowEnd(line, ctx, n)
    IN  [k \in 1..Max(end + 1 - start, 0) |-> start + k - 1]

\* read_context as a function of the archive: the returned value, the cache
\* after the call, the resolve call it made (if any) and the indices read.
ReadContextOutcome(names, fs, c, uri, line, ctx) ==
    IF ~Truthy(uri) \/ ~Truthy(line)
    THEN [ret |-> PyNone, cache |-> c, resolved |-> <<>>, reads |-> <<>>]
    ELSE LET out == ResolveOutcome(names, c, uri.s)
             call == <<[uri |-> uri.s, entry |-> out.entry, scanned |-> out.scanned]>>
         IN  IF out.entry = PyNone
             THEN [ret |-> PyNone, cache |-> out.cache, resolved |-> call, reads |-> <<>>]
             ELSE LET lines == fs[out.entry.s]
                      window == Window(line.n, ctx, Len(lines))
                      \* lines[lineno] raises IndexError past the end of the list
                      bad == {k \in 1..Len(window) : window[k] >= Len(lines)}
                      firstBad == CHOOSE k \in bad : \A j \in bad : k <= j
                      snippet_lines ==
                          [k \in 1..Len(window) |-> Prefix(window[k]) \o lines[window[k] + 1]]
                  IN  IF bad # {}
                      THEN [ret |-> PyRaise("IndexError"),
                            cache |-> out.cache,
                            resolved |-> call,
                            reads |-> SubSeq(window, 1, firstBad)]
                      ELSE [ret |-> PyDict([uri |-> uri,
                                            zip_entry |-> out.entry,
                                            line |-> line,
                                            snippet |-> PyStr(JoinLines(snippet_lines))]),
                            cache |-> out.cache,
                            resolved |-> call,
                            reads |-> window]

\* One call of SourceArchive.read_context(uri, line, context).
ReadContext(uri, line, ctx) ==
    /\ LET out == ReadContextOutcome(namelist, files, cache, uri, line, ctx)
       IN  /\ ret' = out.ret
           /\ cache' = out.cache
           /\ reads' = out.reads
           /\ calls' = out.resolved
    /\ args' = [uri |-> uri, line |-> line, radius |-> ctx]
    /\ UNCHANGED <<namelist, files>>
    /\ UNCHANGED extractVars
    /\ UNCHANGED triageVars

\* The lines of a sample file of n lines.
FileOfLen(n) == [i \in 1..n |-> "L" \o ToString(i)]

NoCache == [u \in {} |-> PyNone]
NoArgs == [uri |-> PyNone, line |-> PyNone, radius |-> 0]

\* No triage is running.
NoTriage ==
    /\ triage_records = <<>> /\ finding = 0 /\ session = "idle"
    /\ conversation_history = <<>> /\ events = <<>>

\* No extraction is running.
NoExtract ==
    /\ results = <<>> /\ limit = PyNone /\ context = 0 /\ idx = 0
    /\ records = <<>> /\ lookups = <<>> /\ prompts = <<>> /\ pc = "idle"

\* Archives for the resolve calls: any listing of up to MaxEntries entries.
InitArchive ==
    /\ namelist \in SeqsUpTo(ArchiveNames, MaxEntries)
    /\ files = [n \in ArchiveNames |-> FileOfLen(1)]
    /\ cache = NoCache
    /\ calls = <<>>
    /\ args = NoArgs
    /\ ret = PyNone
    /\ reads = <<>>
    /\ NoExtract
    /\ NoTriage

NextArchive == \E uri \in Uris : Resolve(uri)

SpecArchive == InitArchive /\ [][NextArchive]_vars

\* Archives for read_context: two nested entries, each of n lines, n in 0..MaxLines.
ContextNames == {"/a", "b/a"}
UriArgs == {PyNone} \cup {PyStr(u) : u \in Uris}
LineArgs == {PyNone} \cup {PyInt(l) : l \in (-1)..(MaxLines + 2)}

InitContext ==
    /\ namelist = <<"b/a", "/a">>
    /\ files \in {[e \in ContextNames |-> FileOfLen(n)] : n \in 0..MaxLines}
    /\ cache = NoCache
    /\ calls = <<>>
    /\ args = NoArgs
    /\ ret = PyNone
    /\ reads = <<>>
    /\ NoExtract
    /\ NoTriage

NextContext ==
    \E uri \in UriArgs, line \in LineArgs, ctx \in 0..MaxRadius :
        ReadContext(uri, line, ctx)

SpecContext == InitContext /\ [][NextContext]_vars

(***************************************************************************)
(* extract_context_records and its helpers                                 *)
(***************************************************************************)
MaxResults == 2

\* d.get(key, default); on a value that is no dictionary the attribute lookup
\* raises AttributeError.  A raised exception propagates through a chain.
PyGet(v, key, default) ==
    CASE v.t = "raise" -> v
      [] v.t = "dict" -> IF key \in DOMAIN v.d THEN v.d[key] ELSE default
      [] OTHER -> PyRaise("AttributeError")

\* d.get(key)
PyGet1(v, key) == PyGet(v, key, PyNone)

\* `key in item`
HasKey(v, key) == v.t = "dict" /\ key \in DOMAIN v.d

\* _first_physical_location(items)
RECURSIVE FirstPhysicalFrom(_)
FirstPhysicalFrom(items) ==
    IF items = <<>> THEN PyNone
    ELSE LET item == Head(items)
             loc == IF item.t = "dict" THEN PyGet1(item, "location") ELSE PyNone
         IN  IF item.t # "dict" THEN FirstPhysicalFrom(Tail(items))
             ELSE IF HasKey(item, "physicalLocation") THEN item.d["physicalLocation"]
             ELSE IF HasKey(loc, "physicalLocation") THEN loc.d["physicalLocation"]
             ELSE FirstPhysicalFrom(Tail(items))

first_physical_location(items) ==
    IF ~Truthy(items) THEN PyNone ELSE FirstPhysicalFrom(items.l)

\* _location_payload(location, archive, context): the payload, the cache
\* after the call and the read_context lookup it made (if any).
location_payload(location, names, fs, c, ctx) ==
    IF ~Truthy(location)
    THEN [payload |-> PyNone, cache |-> c, lookups |-> <<>>]
    ELSE LET artifact == PyGet(location, "artifactLocation", EmptyDict)
             region == PyGet(location, "region", EmptyDict)
             uri == PyGet1(artifact, "uri")
             start_line == PyGet1(region, "startLine")
             out == ReadContextOutcome(names, fs, c, uri, start_line, ctx)
             snippet == out.ret
         IN  [payload |-> PyDict([uri |-> uri,
                                  start_line |-> start_line,
                                  start_column |-> PyGet1(region, "startColumn"),
                                  end_line |-> PyGet1(region, "endLine"),
                                  end_column |-> PyGet1(region, "endColumn"),
                                  snippet |-> IF Truthy(snippet)
                                              THEN snippet.d["snippet"] ELSE PyNone]),
              cache |-> out.cache,
              lookups |-> <<[uri |-> uri, line |-> start_line]>>]

\* The three nested loops of _code_flow_steps: every node of every thread of
\* every flow, in file order.
RECURSIVE FlowNodes(_)
RECURSIVE ThreadNodes(_)
ThreadNodes(threads) ==
    IF threads = <<>> THEN <<>>
    ELSE PyGet(Head(threads), "locations", PyList(<<>>)).l \o ThreadNodes(Tail(threads))
FlowNodes(flows) ==
    IF flows = <<>> THEN <<>>
    ELSE ThreadNodes(PyGet(Head(flows), "threadFlows", PyList(<<>>)).l)
             \o FlowNodes(Tail(flows))

\* steps.append({"message": message, "location": payload}) for one node,
\* given its payload `first` and the steps of the nodes after it.
StepAppended(node, first, rest) ==
    LET loc == PyGet(node, "location", EmptyDict)
        msg == PyGet1(loc, "message")
        message == PyGet1(IF Truthy(msg) THEN msg ELSE EmptyDict, "text")
    IN  [steps |-> <<PyDict([message |-> message, location |-> first.payload])>>
                       \o rest.steps,
         cache |-> rest.cache,
         lookups |-> first.lookups \o rest.lookups]

\* The body of the innermost loop, over the nodes left, threading the cache.
RECURSIVE StepsFrom(_, _, _, _, _)
StepsAfter(nodes, names, fs, ctx, first) ==
    StepAppended(Head(nodes), first, StepsFrom(Tail(nodes), names, fs, first.cache, ctx))
StepsFrom(nodes, names, fs, c, ctx) ==
    IF nodes = <<>> THEN [steps |-> <<>>, cache |-> c, lookups |-> <<>>]
    ELSE StepsAfter(nodes, names, fs, ctx,
                    location_payload(
                        PyGet1(PyGet(Head(nodes), "location", EmptyDict), "physicalLocation"),
                        names, fs, c, ctx))

\* _code_flow_steps(code_flows, archive, context)
code_flow_steps(code_flows, names, fs, c, ctx) ==
    IF ~Truthy(code_flows) THEN [steps |-> <<>>, cache |-> c, lookups |-> <<>>]
    ELSE StepsFrom(FlowNodes(code_flows.l), names, fs, c, ctx)

\* record = {...}, given the sink and source payloads and the path.
RecordOf(result, position, sink, source, path) ==
    LET props == PyGet1(result, "properties")
    IN  [record |-> PyDict([result_index |-> PyInt(position),
                            rule_id |-> PyGet1(result, "ruleId"),
                            message |-> PyGet1(PyGet(result, "message", EmptyDict), "text"),
                            score |-> PyGet1(IF Truthy(props) THEN props ELSE EmptyDict, "score"),
                            sink |-> sink.payload,
                            source |-> source.payload,
                            path |-> PyList(path.steps)]),
         cache |-> path.cache,
         lookups |-> sink.lookups \o source.lookups \o path.lookups]

\* The record once the sink and the source are looked up: the path is next.
RecordWithSource(result, position, names, fs, ctx, sink, source) ==
    RecordOf(result, position, sink, source,
             code_flow_steps(PyGet(result, "codeFlows", PyList(<<>>)),
                             names, fs, source.cache, ctx))

\* The record once the sink is looked up: the source is next.
RecordWithSink(result, position, names, fs, ctx, sink) ==
    RecordWithSource(result, position, names, fs, ctx, sink,
        location_payload(
            first_physical_location(PyGet(result, "relatedLocations", PyList(<<>>))),
            names, fs, sink.cache, ctx))

\* The body of the loop of extract_context_records for one result.
BuildRecord(result, position, names, fs, c, ctx) ==
    RecordWithSink(result, position, names, fs, ctx,
        location_payload(
            first_physical_location(PyGet(result, "locations", PyList(<<>>))),
            names, fs, c, ctx))

(***************************************************************************)
(* format_finding_as_prompt                                                *)
(***************************************************************************)
\* A string held as its sequence of lines.
PyText(lines) == [t |-> "text", lines |-> lines]

NA == PyStr("N/A")
NoSnippet == PyStr("No snippet available.")

\* str(value), as an f-string renders a replacement field.
Str(v) ==
    CASE v.t = "none" -> "None"
      [] v.t = "str" -> v.s
      [] v.t = "int" -> ToString(v.n)
      [] OTHER -> "<object>"

\* The text after the last substitution, dedented.
ClosingBlock ==
    <<"",
      "Please answer these questions:",
      "1. Does the command execute user-controlled or environment-derived input?",
      "2. Is there any sanitization or validation of the input?",
      "3. Is the execution path from source to sink reachable in a realistic scenario?",
      "4. Are there any other constraints or conditions that might mitigate the risk?",
      "",
      "Return a JSON response with your verdict, confidence, and a brief reason. The reason must reference details from the code snippets.",
      "{",
      "    \"verdict\": \"malicious|benign|unsure\",",
      "    \"confidence\": \"high|medium|low\",",
      "    \"reason\": \"...\"",
      "}">>

NoPathLine == "No data flow path available."

\* The code-fence line of the template: three backquotes in the source, a
\* character TLA+ strings cannot hold.
Fence == "~~~"

\* The values substituted into one line of the taint path.
StepFields(step) ==
    LET location == PyGet(step, "location", EmptyDict)
    IN  <<PyGet(step, "message", PyStr("Step")),
          PyGet(location, "uri", NA),
          PyGet(location, "start_line", NA)>>

\* f"{i+1}. {message} at {uri}:{line}\n" for the step at position k (k = i+1)
StepLine(k, step) ==
    LET f == StepFields(step)
    IN  ToString(k) \o ". " \o Str(f[1]) \o " at " \o Str(f[2]) \o ":" \o Str(f[3])

\* The values substituted into the head of the template, in order.
HeadFields(record) ==
    <<PyGet(record, "rule_id", NA),
      PyGet(record, "score", NA),
      PyGet(PyGet(record, "sink", EmptyDict), "uri", NA),
      PyGet(PyGet(record, "sink", EmptyDict), "start_line", NA),
      PyGet(PyGet(record, "sink", EmptyDict), "snippet", NoSnippet),
      PyGet(PyGet(record, "source", EmptyDict), "snippet", NoSnippet)>>

\* format_finding_as_prompt(record): the prompt, or the exception raised.
\* (The typographic apostrophe of the first line is written as ' here.)
format_finding_as_prompt(record) ==
    LET h == HeadFields(record)
        path_steps == PyGet(record, "path", PyList(<<>>))
        steps == IF path_steps.t = "list" THEN path_steps.l ELSE <<>>
        raisedInHead == \E i \in 1..Len(h) : h[i].t = "raise"
        raisedInPath ==
            \E k \in 1..Len(steps) :
                \E i \in 1..3 : StepFields(steps[k])[i].t = "raise"
        pathLines ==
            IF ~Truthy(path_steps) THEN <<NoPathLine>>
            ELSE [k \in 1..Len(steps) |-> StepLine(k, steps[k])]
    IN  IF raisedInHead \/ raisedInPath THEN PyRaise("AttributeError")
        ELSE PyText(<<"You're triaging shell-command injection alerts.",
                      "",
                      "Rule: " \o Str(h[1]),
                      "Score: " \o Str(h[2]),
                      "File: " \o Str(h[3]),
                      "Line: " \o Str(h[4]),
                      "",
                      "Sink (where the command is executed):",
                      Fence,
                      Str(h[5]),
                      Fence,
                      "",
                      "Source (where the input originates):",
                      Fence,
                      Str(h[6]),
                      Fence,
                      "",
                      "Taint Path (data flow from source to sink):">>
                    \o pathLines \o ClosingBlock)

(***************************************************************************)
(* The extract-context and generate-prompts commands                       *)
(***************************************************************************)
\* A SARIF physical location.
Physical(uri, line) ==
    PyDict([artifactLocation |-> PyDict([uri |-> PyStr(uri)]),
            region |-> PyDict([startLine |-> PyInt(line)])])

\* A node of a thread flow.
FlowNode(text, physical) ==
    PyDict([location |-> PyDict([message |-> PyDict([text |-> PyStr(text)]),
                                 physicalLocation |-> physical])])

\* Sample results: every field present; nothing present; no related
\* location; a flow node without a physical location; a sink outside the
\* archive and without a region.
ResultFull ==
    PyDict([ruleId |-> PyStr("js/shell-command-injection"),
            message |-> PyDict([text |-> PyStr("m")]),
            properties |-> PyDict([score |-> PyInt(9)]),
            locations |-> PyList(<<PyDict([physicalLocation |-> Physical("/a", 2)])>>),
            relatedLocations |-> PyList(<<PyDict([physicalLocation |-> Physical("a", 1)])>>),
            codeFlows |-> PyList(<<PyDict([threadFlows |-> PyList(<<PyDict([locations |->
                PyList(<<FlowNode("src", Physical("a", 1)),
                         FlowNode("sink", Physical("/a", 2))>>)])>>)])>>)])
ResultBare == EmptyDict
ResultNoSource ==
    PyDict([ruleId |-> PyStr("js/shell-command-injection"),
            properties |-> PyDict([score |-> PyInt(9)]),
            locations |-> PyList(<<PyDict([location |->
                PyDict([physicalLocation |-> Physical("a", 3)])])>>)])
ResultNullStep ==
    PyDict([ruleId |-> PyStr("js/shell-command-injection"),
            properties |-> PyDict([score |-> PyInt(9)]),
            locations |-> PyList(<<PyDict([physicalLocation |-> Physical("/a", 1)])>>),
            relatedLocations |-> PyList(<<PyDict([physicalLocation |-> Physical("a", 1)])>>),
            codeFlows |-> PyList(<<PyDict([threadFlows |-> PyList(<<PyDict([locations |->
                PyList(<<PyDict([location |->
                    PyDict([message |-> PyDict([text |-> PyStr("src")])])])>>)])>>)])>>)])
ResultUnresolved ==
    PyDict([properties |-> PyNone,
            locations |-> PyList(<<PyDict([physicalLocation |->
                PyDict([artifactLocation |-> PyDict([uri |-> PyStr("b")])])])>>),
            relatedLocations |-> PyList(<<PyDict([physicalLocation |-> Physical("b", 1)])>>)])

ResultSamples == {ResultFull, ResultBare, ResultNoSource, ResultNullStep, ResultUnresolved}

\* `limit is not None and idx >= limit`
LimitReachedAfter(lim, position) == lim # PyNone /\ position > lim.n

LimitReached(lim, position) == lim # PyNone /\ position >= lim.n

\* One iteration of the loop of extract_context_records.
ExtractIter ==
    /\ pc = "loop"
    /\ idx < Len(results)
    /\ ~LimitReached(limit, idx)
    /\ LET out == BuildRecord(results[idx + 1], idx, namelist, files, cache, context)
       IN  /\ records' = Append(records, out.record)
           /\ cache' = out.cache
           /\ lookups' = lookups \o
                  [k \in 1..Len(out.lookups) |->
                      [position |-> idx, uri |-> out.lookups[k].uri, line |-> out.lookups[k].line]]
    /\ idx' = idx + 1
    /\ UNCHANGED <<namelist, files, calls, args, ret, reads>>
    /\ UNCHANGED <<results, limit, context, prompts, pc>>
    /\ UNCHANGED triageVars

\* The break of the loop at the limit.
ExtractBreak ==
    /\ pc = "loop"
    /\ idx < Len(results)
    /\ LimitReached(limit, idx)
    /\ pc' = "returned"
    /\ UNCHANGED archiveVars
    /\ UNCHANGED <<results, limit, context, idx, records, lookups, prompts>>
    /\ UNCHANGED triageVars

\* The loop has run over every result: return records.
ExtractReturn ==
    /\ pc = "loop"
    /\ idx = Len(results)
    /\ pc' = "returned"
    /\ UNCHANGED archiveVars
    /\ UNCHANGED <<results, limit, context, idx, records, lookups, prompts>>
    /\ UNCHANGED triageVars

\* generate_prompts formats the next record; an exception leaves the command.
FormatNext ==
    /\ pc = "returned"
    /\ Len(prompts) < Len(records)
    /\ LET prompt == format_finding_as_prompt(records[Len(prompts) + 1])
       IN  IF prompt.t = "raise"
           THEN pc' = "raised" /\ prompts' = prompts
           ELSE pc' = pc /\ prompts' = Append(prompts, prompt)
    /\ UNCHANGED archiveVars
    /\ UNCHANGED <<results, limit, context, idx, records, lookups>>
    /\ UNCHANGED triageVars

\* generate_prompts writes the prompts once every record is formatted.
WritePrompts ==
    /\ pc = "returned"
    /\ Len(prompts) = Len(records)
    /\ pc' = "written"
    /\ UNCHANGED archiveVars
    /\ UNCHANGED <<results, limit, context, idx, records, lookups, prompts>>
    /\ UNCHANGED triageVars

LimitArgs == {PyNone} \cup {PyInt(l) : l \in (-1)..(MaxResults + 1)}

InitExtract ==
    /\ namelist = <<"b/a", "/a">>
    /\ files = [e \in ContextNames |-> FileOfLen(MaxLines)]
    /\ cache = NoCache
    /\ calls = <<>>
    /\ args = NoArgs
    /\ ret = PyNone
    /\ reads = <<>>
    /\ results \in SeqsUpTo(ResultSamples, MaxResults)
    /\ limit \in LimitArgs
    /\ context \in {0, MaxRadius}
    /\ idx = 0
    /\ records = <<>>
    /\ lookups = <<>>
    /\ prompts = <<>>
    /\ pc = "loop"
    /\ NoTriage

NextExtract ==
    \/ ExtractIter
    \/ ExtractBreak
    \/ ExtractReturn
    \/ FormatNext
    \/ WritePrompts

SpecExtract == InitExtract /\ [][NextExtract]_vars

(***************************************************************************)
(* gemini.py: the triage run                                               *)
(***************************************************************************)
MaxTurns == 1

\* extract_context_records as main calls it: the loop run to its end.
RECURSIVE ExtractFrom(_, _, _, _, _, _)
ExtractFrom(rs, position, names, fs, c, ctx) ==
    IF rs = <<>> THEN <<>>
    ELSE LET out == BuildRecord(Head(rs), position, names, fs, c, ctx)
         IN  <<out.record>> \o ExtractFrom(Tail(rs), position + 1, names, fs, out.cache, ctx)

\* Sample SARIF result lists of the runs.
TriageRuns ==
    {<<>>, <<ResultFull>>, <<ResultFull, ResultFull>>, <<ResultFull, ResultNoSource>>}

\* What the user may type at the prompt "You: ".
UserInputs == {"quit", " QuIT ", "next", "\tNEXT", "hi", "quit next"}

\* response.text of a reply of the service.
ResponseTexts == {PyNone, PyStr("ok")}
ServiceError == PyRaise("APIError")

Whitespace == {" ", "\t", "\n", "\r"}
Uppercase == "ABCDEFGHIJKLMNOPQRSTUVWXYZ"
Lowercase == "abcdefghijklmnopqrstuvwxyz"

\* str.strip()
RECURSIVE Strip(_)
Strip(str) ==
    IF str = "" THEN ""
    ELSE IF SubSeq(str, 1, 1) \in Whitespace THEN Strip(SubSeq(str, 2, Len(str)))
    ELSE IF SubSeq(str, Len(str), Len(str)) \in Whitespace
         THEN Strip(SubSeq(str, 1, Len(str) - 1))
    ELSE str

\* str.lower()
LowerChar(c) ==
    IF \E i \in 1..Len(Uppercase) : SubSeq(Uppercase, i, i) = c
    THEN LET i == CHOOSE i \in 1..Len(Uppercase) : SubSeq(Uppercase, i, i) = c
         IN  SubSeq(Lowercase, i, i)
    ELSE c
RECURSIVE Lower(_)
Lower(str) ==
    IF str = "" THEN ""
    ELSE LowerChar(SubSeq(str, 1, 1)) \o Lower(SubSeq(str, 2, Len(str)))

\* types.Content(role=role, parts=[Part.from_text(text=text)])
as_content(text, role) == [role |-> role, text |-> text]

\* `response.text or ""`
ReplyText(text) == IF Truthy(text) THEN text ELSE PyStr("")

\* history.append(_as_content(text, role="model")) after a reply
RecordReplyIfText(history, text) ==
    IF Truthy(text) THEN Append(history, as_content(text, "model")) ELSE history

RecordReply(history, text) == Append(history, as_content(ReplyText(text), "model"))

\* contents=history of the generate_content call for a new user turn
CallContentsTurnOnly(history, prompt) == <<as_content(prompt, "user")>>

CallContents(history, prompt) == Append(history, as_content(prompt, "user"))

\* _send_and_record_response(client, history, prompt) when the service
\* answers `response` (a reply's text, or an exception): the contents sent,
\* the history afterwards, and whether the call returned.
send_and_record_response(history, prompt, response) ==
    LET contents == CallContents(history, prompt)
        sent == Append(history, as_content(prompt, "user"))
    IN  IF response.t = "raise"
        THEN [contents |-> contents, history |-> sent, ok |-> FALSE]
        ELSE [contents |-> contents, history |-> RecordReply(sent, response), ok |-> TRUE]

\* The branch the interactive loop takes on a line of input.
DispatchExact(user_input) ==
    IF user_input = "quit" THEN "quit"
    ELSE IF user_input = "next" THEN "next"
    ELSE "send"

Dispatch(user_input) ==
    LET lowered == Lower(Strip(user_input))
    IN  IF lowered = "quit" THEN "quit"
        ELSE IF lowered = "next" THEN "next"
        ELSE "send"

\* `except Exception` around a send: the session ends (return, or break).
OnSendErrorRetry == "interactive"

OnSendError == "main"

SessionEvent == [kind |-> "session", finding |-> finding]
CallEvent(out) ==
    [kind |-> "call", finding |-> finding, contents |-> out.contents, ok |-> out.ok]
InputEvent(text) == [kind |-> "input", finding |-> finding, text |-> text]

\* main calls start_chat_session for the next record, which formats the
\* prompt and sends it as the first turn.
StartSession ==
    /\ session = "main"
    /\ finding < Len(triage_records)
    /\ LET initial_prompt == format_finding_as_prompt(triage_records[finding + 1])
       IN  IF initial_prompt.t = "raise"
           THEN /\ session' = "crashed"
                /\ conversation_history' = <<>>
                /\ events' = Append(events, SessionEvent)
                /\ finding' = finding
           ELSE \E response \in ResponseTexts \cup {ServiceError} :
                    LET out == send_and_record_response(<<>>, initial_prompt, response)
                    IN  /\ conversation_history' = out.history
                        /\ events' = events \o <<SessionEvent, CallEvent(out)>>
                        /\ session' = IF out.ok THEN "interactive" ELSE OnSendError
                        /\ finding' = IF out.ok \/ OnSendError # "main"
                                       THEN finding ELSE finding + 1
    /\ UNCHANGED triage_records
    /\ UNCHANGED <<archiveVars, extractVars>>

\* input() returns a line: quit, next, or a follow-up sent to the service.
ReadInput(user_input) ==
    /\ session = "interactive"
    /\ LET branch == Dispatch(user_input)
       IN  CASE branch = "quit" ->
                  /\ session' = "exited"
                  /\ events' = Append(events, InputEvent(user_input))
                  /\ UNCHANGED <<finding, conversation_history>>
             [] branch = "next" ->
                  /\ session' = "main"
                  /\ finding' = finding + 1
                  /\ events' = Append(events, InputEvent(user_input))
                  /\ UNCHANGED conversation_history
             [] OTHER ->
                  /\ Len(conversation_history) < 2 * (MaxTurns + 1)
                  /\ \E response \in ResponseTexts \cup {ServiceError} :
                         LET out == send_and_record_response(
                                        conversation_history, PyStr(user_input), response)
                         IN  /\ conversation_history' = out.history
                             /\ events' = events \o <<InputEvent(user_input), CallEvent(out)>>
                             /\ session' = IF out.ok THEN "interactive" ELSE OnSendError
                             /\ finding' = IF out.ok \/ OnSendError # "main"
                                            THEN finding ELSE finding + 1
    /\ UNCHANGED triage_records
    /\ UNCHANGED <<archiveVars, extractVars>>

\* input() raises EOFError: `except Exception` breaks out of the loop.
InputEOF ==
    /\ session = "interactive"
    /\ session' = "main"
    /\ finding' = finding + 1
    /\ UNCHANGED <<triage_records, conversation_history, events>>
    /\ UNCHANGED <<archiveVars, extractVars>>

\* Ctrl-C at the prompt: KeyboardInterrupt becomes SystemExit.
InputInterrupt ==
    /\ session = "interactive"
    /\ session' = "exited"
    /\ UNCHANGED <<triage_records, finding, conversation_history, events>>
    /\ UNCHANGED <<archiveVars, extractVars>>

\* The loop of main is over (or there were no records): main returns.
Finish ==
    /\ session = "main"
    /\ finding = Len(triage_records)
    /\ session' = "finished"
    /\ UNCHANGED <<triage_records, finding, conversation_history, events>>
    /\ UNCHANGED <<archiveVars, extractVars>>

\* main after extract_context_records has returned the records.
InitTriage ==
    /\ namelist = <<"b/a", "/a">>
    /\ files = [e \in ContextNames |-> FileOfLen(MaxLines)]
    /\ cache = NoCache
    /\ calls = <<>>
    /\ args = NoArgs
    /\ ret = PyNone
    /\ reads = <<>>
    /\ NoExtract
    /\ triage_records \in
           {ExtractFrom(rs, 0, namelist, files, NoCache, MaxRadius) : rs \in TriageRuns}
    /\ finding = 0
    /\ session = "main"
    /\ conversation_history = <<>>
    /\ events = <<>>

NextTriage ==
    \/ StartSession
    \/ \E user_input \in UserInputs : ReadInput(user_input)
    \/ InputEOF
    \/ InputInterrupt
    \/ Finish

SpecTriage == InitTriage /\ [][NextTriage]_vars

(***************************************************************************)
(* Claims about SourceArchive                                              *)
(***************************************************************************)
\* The file read_context read in its last call, when it resolved one.
ResolvedLines == files[calls[1].entry.s]
ContextResolved ==
    /\ Truthy(args.uri) /\ Truthy(args.line)
    /\ calls # <<>> /\ calls[1].entry # PyNone

\* C7: read_context on a resolved file of N lines, line L and radius r >= 0
\* reads only indices in [0, N-1] and never fails; when 1 <= L <= N the window
\* is exactly max(L-1-r, 0) .. min(L-1+r, N-1), which contains L-1.
C7_WindowInRange ==
    ContextResolved =>
        LET N == Len(ResolvedLines)
            L == args.line.n
            r == args.radius
            lo == IF L - 1 - r >= 0 THEN L - 1 - r ELSE 0
            hi == IF L - 1 + r <= N - 1 THEN L - 1 + r ELSE N - 1
        IN  /\ ret.t = "dict"
            /\ \A k \in 1..Len(reads) : 0 <= reads[k] /\ reads[k] <= N - 1
            /\ (1 <= L /\ L <= N) =>
                   /\ Len(reads) = hi - lo + 1
                   /\ \A k \in 1..Len(reads) : reads[k] = lo + k - 1
                   /\ \E k \in 1..Len(reads) : reads[k] = L - 1

\* A window clamped at both ends of a three-line file.
C7_Witness ==
    /\ ContextResolved
    /\ Len(ResolvedLines) = 3 /\ args.line.n = 2 /\ args.radius = 2
    /\ reads = <<0, 1, 2>>

\* Some entry of the listing ends with uri.
SomeMatch(uri) == \E k \in 1..Len(namelist) : EndsWith(namelist[k], uri)

\* Position k holds a shortest matching entry, the first of that length.
FirstShortest(k, uri) ==
    /\ EndsWith(namelist[k], uri)
    /\ \A j \in 1..Len(namelist) :
           EndsWith(namelist[j], uri) =>
               /\ Len(namelist[k]) <= Len(namelist[j])
               /\ (j < k => Len(namelist[k]) < Len(namelist[j]))

\* C8: resolve returns the shortest entry ending with the URI, the first in
\* listing order among the shortest, and None exactly when no entry matches.
C8_ShortestFirstMatch ==
    \A i \in 1..Len(calls) :
        LET uri == calls[i].uri
            entry == calls[i].entry
        IN  /\ (entry = PyNone) <=> ~SomeMatch(uri)
            /\ entry # PyNone =>
                   \E k \in 1..Len(namelist) :
                       /\ FirstShortest(k, uri)
                       /\ entry = PyStr(namelist[k])

\* A tie between two shortest matches, and a shortest match listed last.
C8_Witness ==
    /\ namelist = <<"b/a", "c/a", "a">>
    /\ \E i \in 1..Len(calls) : calls[i].uri = "/a" /\ calls[i].entry = PyStr("b/a")
    /\ \E i \in 1..Len(calls) : calls[i].uri = "a" /\ calls[i].entry = PyStr("a")

\* C9: the listing is scanned at most once per URI; a repeat lookup, also of
\* a URI that matched nothing, returns the first result without a scan, and
\* the cache holds that first result from then on.
C9_ScanOncePerUri ==
    \A i \in 1..Len(calls) :
        /\ calls[i].uri \in DOMAIN cache
        /\ cache[calls[i].uri] = calls[i].entry
        /\ \A j \in 1..Len(calls) :
               (i < j /\ calls[j].uri = calls[i].uri) =>
                   /\ ~calls[j].scanned
                   /\ calls[j].entry = calls[i].entry

\* A URI without a match looked up twice.
C9_Witness ==
    \E i, j \in 1..Len(calls) :
        /\ i < j /\ calls[i].uri = calls[j].uri
        /\ calls[i].entry = PyNone /\ calls[i].scanned
        /\ calls[j].entry = PyNone

(***************************************************************************)
(* Claims about extraction and prompt formatting                           *)
(***************************************************************************)
\* The number of records the claim expects for the limit.
ExpectedCount ==
    IF limit = PyNone THEN Len(results)
    ELSE IF limit.n < 0 THEN 0
    ELSE IF limit.n < Len(results) THEN limit.n ELSE Len(results)

\* C10: the records are those of positions 0..min(limit, R)-1 in order, each
\* with its position as result_index and with the content an unlimited run
\* gives that position; nothing is looked up for a result past the limit.
C10_LimitPrefix ==
    /\ Len(records) <= ExpectedCount
    /\ pc \in {"returned", "written", "raised"} => Len(records) = ExpectedCount
    /\ \A k \in 1..Len(records) :
           /\ records[k].d.result_index = PyInt(k - 1)
           /\ records[k] = BuildRecord(results[k], k - 1, namelist, files, NoCache, context).record
    /\ \A j \in 1..Len(lookups) : lookups[j].position < ExpectedCount

\* A limit that cuts a two-result file after its first result.
C10_Witness ==
    /\ pc = "returned"
    /\ Len(results) = 2 /\ limit = PyInt(1)
    /\ Len(records) = 1 /\ lookups # <<>>
    /\ results[2] = ResultFull

InLines(prompt, line) == \E i \in 1..Len(prompt.lines) : prompt.lines[i] = line

\* What the claim says of the prompt rendered for a record.
RendersPlaceholders(record, prompt) ==
    /\ prompt.t = "text"
    /\ record.d.path = PyList(<<>>) => InLines(prompt, NoPathLine)
    /\ record.d.rule_id = PyNone => InLines(prompt, "Rule: N/A")
    /\ record.d.score = PyNone => InLines(prompt, "Score: N/A")
    /\ (record.d.sink = PyNone \/ record.d.sink.d.uri = PyNone) => InLines(prompt, "File: N/A")
    /\ (record.d.sink = PyNone \/ record.d.sink.d.start_line = PyNone) =>
           InLines(prompt, "Line: N/A")

\* C6: the formatter returns a prompt for every record the builder emits,
\* with the fixed sentence for an empty path and N/A for each missing field.
C6_FormatterTotal ==
    /\ pc # "raised"
    /\ \A k \in 1..Len(prompts) : RendersPlaceholders(records[k], prompts[k])

(***************************************************************************)
(* Claims about the triage run                                             *)
(***************************************************************************)
IsCall(i) == events[i].kind = "call"
IsInput(i) == events[i].kind = "input"
IsSession(i) == events[i].kind = "session"
Typed(i, token) == IsInput(i) /\ Lower(Strip(events[i].text)) = token
FailedCall(i) == IsCall(i) /\ ~events[i].ok
HasFollower(i) == events[i].finding + 1 < Len(triage_records)

\* Event i is the last one so far and main is about to take up the finding
\* after it, or to return when there is none.
BackInMain(i) ==
    /\ i = Len(events)
    /\ finding = events[i].finding + 1
    /\ session = "main" \/ (session = "finished" /\ ~HasFollower(i))

\* The events right after event i are the start of the next finding's
\* session and the send of its initial prompt.
NextPromptSent(i) ==
    /\ i + 2 <= Len(events)
    /\ events[i + 1] = [kind |-> "session", finding |-> events[i].finding + 1]
    /\ IsCall(i + 2)
    /\ events[i + 2].finding = events[i].finding + 1
    /\ events[i + 2].contents =
           <<as_content(format_finding_as_prompt(triage_records[events[i].finding + 2]),
                        "user")>>

\* C1: once quit is typed (any case, surrounding blanks ignored) the run is
\* over: that input stays the last event, so no input is read, no call is
\* made and no session is started after it.
C1_QuitEndsRun ==
    \A i \in 1..Len(events) :
        Typed(i, "quit") => (i = Len(events) /\ session = "exited")

\* quit typed with capitals and blanks while another finding is waiting.
C1_Witness ==
    /\ session = "exited"
    /\ events # <<>> /\ IsInput(Len(events)) /\ events[Len(events)].text = " QuIT "
    /\ finding = 1 /\ Len(triage_records) = 2

\* C2: next (any case, blanks ignored) is never sent and ends only its own
\* session: nothing more happens for that finding, and when another finding
\* follows its initial prompt is what is sent next; with none the run ends.
C2_NextEndsSessionOnly ==
    \A i \in 1..Len(events) :
        Typed(i, "next") =>
            /\ i < Len(events) => ~IsCall(i + 1)
            /\ \A j \in (i + 1)..Len(events) : events[j].finding > events[i].finding
            /\ session # "exited" \/ i < Len(events)
            /\ IF HasFollower(i)
               THEN BackInMain(i) \/ NextPromptSent(i)
               ELSE BackInMain(i)

\* C3: a failed send ends its session without a retry: no later input or
\* call belongs to that finding, and main goes on to start the session of
\* the finding after it.
C3_SendErrorEndsSession ==
    \A i \in 1..Len(events) :
        FailedCall(i) =>
            /\ \A j \in (i + 1)..Len(events) : events[j].finding > events[i].finding
            /\ \/ BackInMain(i)
               \/ /\ HasFollower(i)
                  /\ i < Len(events)
                  /\ events[i + 1] = [kind |-> "session", finding |-> events[i].finding + 1]

\* A follow-up of the first finding fails, the second finding's session is
\* started, its initial send fails too, and main returns normally.
C3_Witness ==
    /\ session = "finished"
    /\ \E i \in 1..Len(events) :
           /\ FailedCall(i) /\ events[i].finding = 0 /\ Len(events[i].contents) = 3
           /\ i < Len(events) /\ IsSession(i + 1)
    /\ FailedCall(Len(events)) /\ Len(events[Len(events)].contents) = 1

\* A history made of (user, model) pairs.
Paired(h) ==
    /\ Len(h) % 2 = 0
    /\ \A n \in 1..Len(h) : h[n].role = IF n % 2 = 1 THEN "user" ELSE "model"

\* The last call made in the run, if any, and whether it is a failed send of
\* the session whose history is held.
CallIndexes == {i \in 1..Len(events) : IsCall(i)}
LastCall == CHOOSE i \in CallIndexes : \A j \in CallIndexes : j <= i
LastSendFailed ==
    /\ CallIndexes # {}
    /\ ~events[LastCall].ok
    /\ \A j \in (LastCall + 1)..Len(events) : ~IsSession(j)

\* C4 as stated: in every state the history is a sequence of pairs.
C4_HistoryAlwaysPairs == Paired(conversation_history)

\* C4 as amended: turns are appended in send order; a send that returns adds
\* its user turn and then its model turn, also when the reply is empty, so
\* the history is made of pairs whenever the session can still send; a send
\* that fails leaves its user turn last and unpaired, and ends the session.
C4_PairsUnlessSendFailed ==
    LET h == conversation_history
    IN  /\ IF LastSendFailed
           THEN /\ session # "interactive"
                /\ h = events[LastCall].contents
                /\ Paired(SubSeq(h, 1, Len(h) - 1))
                /\ h[Len(h)].role = "user"
           ELSE Paired(h)
        /\ session = "interactive" =>
               /\ CallIndexes # {}
               /\ events[LastCall].ok
               /\ SubSeq(h, 1, Len(h) - 1) = events[LastCall].contents
               /\ h[Len(h)].role = "model"

\* An empty reply recorded as a model turn after a follow-up.
C4_Witness ==
    /\ session = "interactive"
    /\ Len(conversation_history) = 4
    /\ conversation_history[4] = as_content(PyStr(""), "model")

\* The calls of event i's finding made up to event i.
CallsUpTo(i) == {j \in 1..i : IsCall(j) /\ events[j].finding = events[i].finding}

\* C5: the k-th call of a session carries 2(k-1)+1 turns: the turns of the
\* call before it, that call's reply, and the new user turn; the first
\* call of a session carries the finding's prompt alone.
C5_FullHistoryResent ==
    \A i \in 1..Len(events) :
        IsCall(i) =>
            LET c == events[i].contents
                k == Cardinality(CallsUpTo(i))
                earlier == CallsUpTo(i) \ {i}
                prev == CHOOSE j \in earlier : \A m \in earlier : m <= j
            IN  /\ Len(c) = 2 * (k - 1) + 1
                /\ \A n \in 1..Len(c) : c[n].role = IF n % 2 = 1 THEN "user" ELSE "model"
                /\ c[1].text = format_finding_as_prompt(triage_records[events[i].finding + 1])
                /\ k > 1 =>
                       /\ events[prev].ok
                       /\ SubSeq(c, 1, Len(c) - 2) = events[prev].contents
                       /\ IsInput(i - 1)
                       /\ c[Len(c)].text = PyStr(events[i - 1].text)

\* A follow-up in the second finding's session, after follow-ups in the first.
C5_Witness ==
    \E i, j \in 1..Len(events) :
        /\ IsCall(i) /\ events[i].finding = 0 /\ Len(events[i].contents) = 3
        /\ IsCall(j) /\ events[j].finding = 1 /\ Len(events[j].contents) = 3

====
